---- MODULE Spec2Model ----
(***************************************************************************)
(* Model of the Uxn virtual machine of uxnpy: the two ring stacks          *)
(* (src/uxn.py, class Stack), the instruction decoder and dispatcher       *)
(* (Uxn.step), the device bus (Uxn.DEI/DEO, Emu.dei/deo) and the console   *)
(* device (devices/console.py).                                            *)
(*                                                                         *)
(* The whole emulator frame (Emu owning one Uxn and one Console) is one    *)
(* record, so that every method of the source becomes an operator from     *)
(* machine records to machine records.  Python integers are unbounded, so  *)
(* every mask of the source (& 0xff, & 0xffff) is written out as % 256 or  *)
(* % 65536 exactly where the source has it, and nowhere else.              *)
(***************************************************************************)
EXTENDS Integers, Sequences, FiniteSets, TLC

\* vm:    the machine (Uxn, with the Emu and Console that own it)
\* steps: the local counter of the running Uxn.eval
\* phase: where the host is: "eval" inside Uxn.eval, "idle" after it has
\*        returned, "raised" after an exception has propagated out of it
\* prev, ins: history of the last call of step: the machine before it and
\*        the instruction byte it fetched (-1 before the first call of the
\*        running eval; prev is then the machine before the host's call)
\* call:  the host's call in progress, or the last one made: its name
\*        (op), its arguments (arg), its number (n), and the machine (at)
\*        and the standard output (out) when it was made
\* pending: the calls of Console.input that the running on_console has
\*        still to make, as <<char, type>> pairs
\* ret:   the values returned so far by the calls of the host
VARIABLES vm, prev, ins, phase, steps, call, pending, ret

vars == <<vm, prev, ins, phase, steps, call, pending, ret>>

(***************************************************************************)
(* Bit arithmetic on Python ints (non-negative operands only).             *)
(***************************************************************************)
RECURSIVE BitAnd(_, _)
BitAnd(a, b) ==
    IF a = 0 \/ b = 0 THEN 0
    ELSE (IF a % 2 = 1 /\ b % 2 = 1 THEN 1 ELSE 0) + 2 * BitAnd(a \div 2, b \div 2)

RECURSIVE BitOr(_, _)
BitOr(a, b) ==
    IF a = 0 THEN b
    ELSE IF b = 0 THEN a
    ELSE (IF a % 2 = 1 \/ b % 2 = 1 THEN 1 ELSE 0) + 2 * BitOr(a \div 2, b \div 2)

RECURSIVE BitXor(_, _)
BitXor(a, b) ==
    IF a = 0 THEN b
    ELSE IF b = 0 THEN a
    ELSE (IF (a % 2) # (b % 2) THEN 1 ELSE 0) + 2 * BitXor(a \div 2, b \div 2)

RECURSIVE Pow2(_)
Pow2(n) == IF n = 0 THEN 1 ELSE 2 * Pow2(n - 1)

(***************************************************************************)
(* Stack: ram is the 256-byte bytearray, ptr and ptrk are Python ints.     *)
(***************************************************************************)
NewStack == [ram |-> [i \in 0..255 |-> 0], ptr |-> 0, ptrk |-> 0]

\* PU1 without the mask of the value
PU1_Unmasked(s, val) == [s EXCEPT !.ram[s.ptr % 256] = val, !.ptr = s.ptr + 1]

PU1(s, val) == [s EXCEPT !.ram[s.ptr % 256] = val % 256, !.ptr = s.ptr + 1]

\* PU2 that pushes the low byte first
PU2_LowFirst(s, val) == PU1(PU1(s, val), val \div 256)

PU2(s, val) == PU1(PU1(s, val \div 256), val)

\* PO1 is split in the stack it leaves (PO1s) and the value it returns (PO1v)
PO1s(s) == [s EXCEPT !.ptr = s.ptr - 1]

PO1v(s) == s.ram[(s.ptr - 1) % 256]

PO2s(s) == PO1s(PO1s(s))

\* self.PO1() | (self.PO1() << 8): the first pop is the low byte
PO2v(s) == BitOr(PO1v(s), PO1v(PO1s(s)) * 256)

(***************************************************************************)
(* Main memory: bytearray(0x10000), zero initialised.  Kept sparse: the    *)
(* function holds the cells that were written, every other cell reads 0.   *)
(* An index outside 0..65535 raises IndexError in the source.              *)
(***************************************************************************)
InRam(i) == i \in 0..65535

RamGet(ram, i) == IF i \in DOMAIN ram THEN ram[i] ELSE 0

RamSet(ram, i, v) == [a \in (DOMAIN ram) \cup {i} |-> IF a = i THEN v ELSE ram[a]]

(***************************************************************************)
(* The machine: the fields of Uxn (dev, wst, rst, ram, pc, m2, mk, src,    *)
(* dst, x, y, z, emu), the system slot of Emu (system: whether the host    *)
(* has installed a device in it), the console's two output streams (out,   *)
(* err), the bus trace of the instruction in flight (bus: the calls of     *)
(* Emu.deo, in order) and exc, the exception that has propagated out, if   *)
(* any.                                                                    *)
(***************************************************************************)
NewUxn ==
    [ dev |-> [i \in 0..255 |-> 0],
      wst |-> NewStack,
      rst |-> NewStack,
      ram |-> <<>>,
      pc  |-> 0,
      m2  |-> FALSE,
      mk  |-> FALSE,
      src |-> "wst",
      dst |-> "rst",
      x   |-> <<0, 0>>,
      y   |-> <<0, 0>>,
      z   |-> <<0, 0>>,
      emu |-> TRUE,
      system |-> FALSE,
      out |-> <<>>,
      err |-> <<>>,
      bus |-> <<>>,
      exc |-> "none" ]

Src(u) == u[u.src]

Dst(u) == u[u.dst]

SetSrc(u, s) == [u EXCEPT ![u.src] = s]

SetDst(u, s) == [u EXCEPT ![u.dst] = s]

sig(val) == IF val >= 128 THEN val - 256 ELSE val

JMP(u, i) ==
    [u EXCEPT !.pc = IF u.m2 THEN i % 65536 ELSE (u.pc + sig(i)) % 65536]

JMI(u) ==
    IF ~InRam(u.pc) \/ ~InRam(u.pc + 1)
    THEN [u EXCEPT !.exc = "IndexError"]
    ELSE LET a == BitOr(RamGet(u.ram, u.pc) * 256, RamGet(u.ram, u.pc + 1))
         IN  [u EXCEPT !.pc = ((u.pc + 2) + a) % 65536]

POxs(u) == SetSrc(u, IF u.m2 THEN PO2s(Src(u)) ELSE PO1s(Src(u)))

POxv(u) == IF u.m2 THEN PO2v(Src(u)) ELSE PO1v(Src(u))

PUx(u, x) == SetSrc(u, IF u.m2 THEN PU2(Src(u), x) ELSE PU1(Src(u), x))

\* GET(o): o is one of the scratch pairs, named by its field ("x", "y", "z")
GET(u, o) ==
    LET s  == Src(u)
        o0 == PO1v(s)
        s1 == PO1s(s)
    IN  IF u.m2
        THEN [SetSrc(u, PO1s(s1)) EXCEPT ![o] = <<o0, PO1v(s1)>>]
        ELSE [SetSrc(u, s1) EXCEPT ![o] = <<o0, u[o][2]>>]

PUT(u, i) ==
    LET s1 == PU1(Src(u), u[i][1])
    IN  IF u.m2 THEN SetSrc(u, PU1(s1, u[i][2])) ELSE SetSrc(u, s1)

(***************************************************************************)
(* Console device and emulator frame.                                      *)
(***************************************************************************)
\* steps = 0x80000 of Uxn.eval
Budget == 524288

peek16(dev, addr) == BitOr(dev[addr] * 256, dev[addr + 1])

output(u, char) == [u EXCEPT !.out = Append(u.out, char)]

error(u, char) == [u EXCEPT !.err = Append(u.err, char)]

\* Console.deo that routes both ports to output
ConsoleDeo_AllToOutput(u, addr) ==
    IF addr = 24 THEN output(u, u.dev[24])
    ELSE IF addr = 25 THEN output(u, u.dev[25])
    ELSE u

ConsoleDeo(u, addr) ==
    IF addr = 24 THEN output(u, u.dev[24])
    ELSE IF addr = 25 THEN error(u, u.dev[25])
    ELSE u

\* Uxn.eval as one call, for the evaluations that start inside an
\* instruction (defined after step)
RECURSIVE evalLoop(_, _)

\* self.pc = at of Uxn.eval
evalAt(u, at) == [u EXCEPT !.pc = at]

\* an eval that puts pc back when it returns
eval_RestoresPc(u, at) == [evalLoop(evalAt(u, at), Budget) EXCEPT !.pc = u.pc]

eval(u, at) == evalLoop(evalAt(u, at), Budget)

\* the vector that Console.input reads
ConsoleVector(u) == peek16(u.dev, 16)

\* the two writes of Console.input, without the masks
inputWrite_Unmasked(u, char, type_) ==
    [u EXCEPT !.dev[18] = char, !.dev[23] = type_]

\* the two writes of Console.input
inputWrite(u, char, type_) ==
    [u EXCEPT !.dev[18] = char % 256, !.dev[23] = type_ % 256]

\* if vec: of Console.input, always true
inputEvals_Always(u) == TRUE

\* if vec: of Console.input
inputEvals(u) == ConsoleVector(u) # 0

\* Console.input as one call
input(u, char, type_) ==
    LET vec == ConsoleVector(u)
        u1  == inputWrite(u, char, type_)
    IN  IF inputEvals(u) THEN eval(u1, vec) ELSE u1

\* The device in the system slot of Emu: its deo injects the byte written
\* to its port as console input
SystemDeo(u, port) == input(u, u.dev[port], 1)

\* Emu.dei: no datetime and no screen device is ever installed
EmuDei(u, port) == u.dev[port]

\* Emu.deo without the write-through to dev
EmuDeo_NoMirror(u, port, val) ==
    LET u1 == [u EXCEPT !.bus = Append(u.bus, <<port, val>>)]
    IN  IF port \div 16 = 0 /\ u.system THEN SystemDeo(u1, port)
        ELSE IF port \div 16 = 1 THEN ConsoleDeo(u1, port)
        ELSE u1

\* Emu.deo: the write-through, then the routing by high nibble; no screen
\* device is ever installed
EmuDeo(u, port, val) ==
    LET u1 == [u EXCEPT !.dev[port] = val, !.bus = Append(u.bus, <<port, val>>)]
    IN  IF port \div 16 = 0 /\ u.system THEN SystemDeo(u1, port)
        ELSE IF port \div 16 = 1 THEN ConsoleDeo(u1, port)
        ELSE u1

DEI(u, i, o) ==
    LET o0 == IF u.emu THEN EmuDei(u, i) ELSE 0
        o1 == IF u.emu THEN EmuDei(u, (i + 1) % 256) ELSE 0
    IN  PUT([u EXCEPT ![o] = <<o0, IF u.m2 THEN o1 ELSE u[o][2]>>], o)

\* self.m2 and j[1] are read after the first call of emu.deo has returned,
\* and an exception raised below that call ends the instruction
DEO(u, i, j) ==
    IF u.emu
    THEN LET u1 == EmuDeo(u, i, u[j][1])
         IN  IF u1.exc # "none" THEN u1
             ELSE IF u1.m2 THEN EmuDeo(u1, (i + 1) % 256, u1[j][2])
             ELSE u1
    ELSE u

PEK(u, i, o, m) ==
    LET o0 == RamGet(u.ram, i % 65536)
        o1 == RamGet(u.ram, (i + 1) % (m + 1))
    IN  PUT([u EXCEPT ![o] = <<o0, IF u.m2 THEN o1 ELSE u[o][2]>>], o)

POK(u, i, j, m) ==
    LET r1 == RamSet(u.ram, i % 65536, u[j][1])
    IN  [u EXCEPT !.ram = IF u.m2 THEN RamSet(r1, (i + 1) % (m + 1), u[j][2]) ELSE r1]

\* k() that never restores the pointer
k_NoRestore(u) == u

k(u) == IF u.mk THEN SetSrc(u, [Src(u) EXCEPT !.ptr = Src(u).ptrk]) ELSE u

(***************************************************************************)
(* Uxn.step.  Bit(i, b) is the test ins & b for a single-bit mask b.        *)
(***************************************************************************)
Bit(i, b) == (i \div b) % 2 = 1

\* a decoder that ignores the return bit when it selects src
SrcOf_IgnoresReturn(i) == "wst"

SrcOf(i) == IF Bit(i, 64) THEN "rst" ELSE "wst"

DstOf(i) == IF Bit(i, 64) THEN "wst" ELSE "rst"

\* lines 109-119: advance pc, set m2, src, dst, mk, snapshot src.ptr.
\* The bus trace restarts with every instruction.
\* a decode that leaves m2 as the previous instruction set it
Decode_StaleShort(u, i) ==
    LET u1 == [u EXCEPT !.pc  = (u.pc + 1) % 65536,
                        !.src = SrcOf(i),
                        !.dst = DstOf(i),
                        !.mk  = Bit(i, 128),
                        !.bus = <<>>]
    IN  IF u1.mk THEN SetSrc(u1, [Src(u1) EXCEPT !.ptrk = Src(u1).ptr]) ELSE u1

Decode(u, i) ==
    LET u1 == [u EXCEPT !.pc  = (u.pc + 1) % 65536,
                        !.m2  = Bit(i, 32),
                        !.src = SrcOf(i),
                        !.dst = DstOf(i),
                        !.mk  = Bit(i, 128),
                        !.bus = <<>>]
    IN  IF u1.mk THEN SetSrc(u1, [Src(u1) EXCEPT !.ptrk = Src(u1).ptr]) ELSE u1

\* the operands a (popped first) and b of a two-operand instruction, and
\* the machine after both pops and k()
OpA(u) == POxv(u)

OpB(u) == POxv(POxs(u))

Pop2k(u) == k(POxs(POxs(u)))

JCI(u) ==
    LET c  == PO1v(Src(u))
        u1 == SetSrc(u, PO1s(Src(u)))
    IN  IF c # 0 THEN JMI(u1) ELSE [u1 EXCEPT !.pc = (u1.pc + 2) % 65536]

JSI(u) == JMI(SetDst(u, PU2(Dst(u), u.pc + 2)))

LIT(u) ==
    [SetSrc(u, PU1(Src(u), RamGet(u.ram, u.pc))) EXCEPT !.pc = (u.pc + 1) % 65536]

LI2(u) == LIT(LIT(u))

LITr(u) ==
    [SetDst(u, PU1(Dst(u), RamGet(u.ram, u.pc))) EXCEPT !.pc = (u.pc + 1) % 65536]

LI2r(u) == LITr(LITr(u))

INC(u) == PUx(k(POxs(u)), (POxv(u) + 1) % 65536)

POP(u) == k(POxs(u))

NIP(u) == PUT(k(POxs(GET(u, "x"))), "x")

SWP(u) == PUT(PUT(k(GET(GET(u, "x"), "y")), "x"), "y")

ROT(u) == PUT(PUT(PUT(k(GET(GET(GET(u, "x"), "y"), "z")), "y"), "x"), "z")

DUP(u) == PUT(PUT(k(GET(u, "x")), "x"), "x")

OVR(u) == PUT(PUT(PUT(k(GET(GET(u, "x"), "y")), "y"), "x"), "y")

EQU(u) == SetSrc(Pop2k(u), PU1(Src(Pop2k(u)), IF OpB(u) = OpA(u) THEN 1 ELSE 0))

NEQ(u) == SetSrc(Pop2k(u), PU1(Src(Pop2k(u)), IF OpB(u) # OpA(u) THEN 1 ELSE 0))

GTH(u) == SetSrc(Pop2k(u), PU1(Src(Pop2k(u)), IF OpB(u) > OpA(u) THEN 1 ELSE 0))

LTH(u) == SetSrc(Pop2k(u), PU1(Src(Pop2k(u)), IF OpB(u) < OpA(u) THEN 1 ELSE 0))

JMPop(u) == JMP(k(POxs(u)), POxv(u))

JCN(u) ==
    LET a  == POxv(u)
        u1 == POxs(u)
        b  == PO1v(Src(u1))
        u2 == k(SetSrc(u1, PO1s(Src(u1))))
    IN  IF b # 0 THEN JMP(u2, a) ELSE u2

JSR(u) ==
    LET a  == POxv(u)
        u1 == k(POxs(u))
    IN  JMP(SetDst(u1, PU2(Dst(u1), u1.pc)), a)

STH(u) ==
    LET u1 == k(GET(u, "x"))
        d1 == PU1(Dst(u1), u1.x[1])
    IN  SetDst(u1, IF u1.m2 THEN PU1(d1, u1.x[2]) ELSE d1)

LDZ(u) == PEK(k(SetSrc(u, PO1s(Src(u)))), PO1v(Src(u)), "x", 255)

STZ(u) == POK(k(GET(SetSrc(u, PO1s(Src(u))), "y")), PO1v(Src(u)), "y", 255)

LDR(u) ==
    LET u1 == k(SetSrc(u, PO1s(Src(u))))
    IN  PEK(u1, (u1.pc + sig(PO1v(Src(u)))) % 65536, "x", 65535)

STR(u) ==
    LET u1 == k(GET(SetSrc(u, PO1s(Src(u))), "y"))
    IN  POK(u1, (u1.pc + sig(PO1v(Src(u)))) % 65536, "y", 65535)

LDA(u) == PEK(k(SetSrc(u, PO2s(Src(u)))), PO2v(Src(u)), "x", 65535)

STA(u) == POK(k(GET(SetSrc(u, PO2s(Src(u))), "y")), PO2v(Src(u)), "y", 65535)

DEIop(u) == DEI(k(SetSrc(u, PO1s(Src(u)))), PO1v(Src(u)), "x")

DEOop(u) == DEO(k(GET(SetSrc(u, PO1s(Src(u))), "y")), PO1v(Src(u)), "y")

ADD(u) == PUx(Pop2k(u), (OpB(u) + OpA(u)) % 65536)

SUB(u) == PUx(Pop2k(u), (OpB(u) - OpA(u)) % 65536)

\* (b * a) & 0xffff; the product of two shorts does not fit the model
\* checker's 32-bit integers, so it is taken over the two bytes of a
MulMask(b, a) == (b * (a % 256) + ((b * (a \div 256)) % 256) * 256) % 65536

MUL(u) == PUx(Pop2k(u), MulMask(OpB(u), OpA(u)))

\* DIV that leaves the dividend when the divisor is 0
DIV_ZeroKeepsDividend(u) ==
    PUx(Pop2k(u), IF OpA(u) # 0 THEN (OpB(u) \div OpA(u)) % 65536 ELSE OpB(u))

DIV(u) == PUx(Pop2k(u), IF OpA(u) # 0 THEN (OpB(u) \div OpA(u)) % 65536 ELSE 0)

AND(u) == PUx(Pop2k(u), BitAnd(OpB(u), OpA(u)))

ORA(u) == PUx(Pop2k(u), BitOr(OpB(u), OpA(u)))

EOR(u) == PUx(Pop2k(u), BitXor(OpB(u), OpA(u)))

SFT(u) ==
    LET a  == PO1v(Src(u))
        u1 == SetSrc(u, PO1s(Src(u)))
        b  == POxv(u1)
        u2 == k(POxs(u1))
        shift_right == a % 16
        shift_left  == (a \div 16) % 16
    IN  PUx(u2, ((b \div Pow2(shift_right)) * Pow2(shift_left)) % 65536)

\* lines 120-308: the dispatch on op = ins & 0x1f of a decoded machine
Execute(u, i) ==
    LET op == i % 32
    IN  CASE op = 0 ->
               ( CASE i = 0   -> u
                   [] i = 32  -> JCI(u)
                   [] i = 64  -> JMI(u)
                   [] i = 96  -> JSI(u)
                   [] i = 128 -> LIT(u)
                   [] i = 160 -> LI2(u)
                   [] i = 192 -> LITr(u)
                   [] i = 224 -> LI2r(u) )
          [] op = 1  -> INC(u)
          [] op = 2  -> POP(u)
          [] op = 3  -> NIP(u)
          [] op = 4  -> SWP(u)
          [] op = 5  -> ROT(u)
          [] op = 6  -> DUP(u)
          [] op = 7  -> OVR(u)
          [] op = 8  -> EQU(u)
          [] op = 9  -> NEQ(u)
          [] op = 10 -> GTH(u)
          [] op = 11 -> LTH(u)
          [] op = 12 -> JMPop(u)
          [] op = 13 -> JCN(u)
          [] op = 14 -> JSR(u)
          [] op = 15 -> STH(u)
          [] op = 16 -> LDZ(u)
          [] op = 17 -> STZ(u)
          [] op = 18 -> LDR(u)
          [] op = 19 -> STR(u)
          [] op = 20 -> LDA(u)
          [] op = 21 -> STA(u)
          [] op = 22 -> DEIop(u)
          [] op = 23 -> DEOop(u)
          [] op = 24 -> ADD(u)
          [] op = 25 -> SUB(u)
          [] op = 26 -> MUL(u)
          [] op = 27 -> DIV(u)
          [] op = 28 -> AND(u)
          [] op = 29 -> ORA(u)
          [] op = 30 -> EOR(u)
          [] op = 31 -> SFT(u)

\* step() once the instruction byte i has been fetched from ram[pc]
stepIns(u, i) == Execute(Decode(u, i), i)

Fetch(u) == RamGet(u.ram, u.pc)

step(u) == stepIns(u, Fetch(u))

\* a step that returns the opcode ins & 0x1f instead of the instruction
stepReturn_Opcode(i) == i % 32

\* the value step returns for the fetched byte i: return 0 in the BRK
\* branch, return ins at the end
stepReturn(i) == IF i = 0 THEN 0 ELSE i

\* the loop of Uxn.eval with n steps left: it ends when the budget is used
\* up, when step returns 0 (BRK) or when step raises
evalLoop(u, n) ==
    IF n <= 0 THEN u
    ELSE LET i  == Fetch(u)
             u1 == step(u)
         IN  IF u1.exc # "none" \/ stepReturn(i) = 0 THEN u1
             ELSE evalLoop(u1, n - 1)

(***************************************************************************)
(* Uxn.eval: pc := at, steps := 0x80000, then the loop                     *)
(*     while steps > 0 and self.step(): steps -= 1                         *)
(* One EvalStep is one evaluation of the loop condition (one call of step) *)
(* and, when it is true, the body.  An exception raised by step propagates *)
(* out of eval to the host (phase "raised").  MaxRun caps the number of    *)
(* instructions the model follows within one eval that the host calls on   *)
(* a drawn machine, MaxEval within one eval of a load or an input.         *)
(***************************************************************************)
MaxRun == 2

MaxEval == 10

RunCap == IF call.op = "eval" THEN MaxRun ELSE MaxEval

EvalStep ==
    /\ phase = "eval"
    /\ steps > 0
    /\ steps > Budget - RunCap
    /\ UNCHANGED <<call, pending, ret>>
    /\ LET i == Fetch(vm)
           u == step(vm)
       IN  /\ vm' = u
           /\ prev' = vm
           /\ ins' = i
           /\ IF u.exc # "none"
              THEN phase' = "raised" /\ steps' = steps
              ELSE IF stepReturn(i) = 0
                   THEN phase' = "idle" /\ steps' = steps
                   ELSE /\ steps' = steps - 1
                        /\ phase' = IF steps - 1 > 0 THEN "eval" ELSE "idle"

(***************************************************************************)
(* SpecStep: eval(pc) from a machine state drawn from states earlier       *)
(* execution can leave behind (load and eval reset nothing): stacks filled *)
(* by pushes up to a given pointer, a device page and a zero page written  *)
(* by earlier stores, and a program <<i, o1, o2>> at pc for every          *)
(* instruction byte i.                                                     *)
(***************************************************************************)
\* a stack after base pushes of 0 followed by the pushes of img
StackAt(base, img) ==
    [ ram  |-> [c \in 0..255 |->
                  IF ((c - base) % 256) + 1 <= Len(img)
                  THEN img[((c - base) % 256) + 1] ELSE 0],
      ptr  |-> base + Len(img),
      ptrk |-> 0 ]

\* stack contents, bottom first
Images ==
    { <<>>,
      <<17, 34, 51, 68, 85, 102>>,
      <<18, 52, 16>>,
      <<65, 66, 24>>,
      <<3, 4>>,
      <<171, 205, 255>>,
      <<18, 52, 0, 0>>,
      <<190, 239, 255, 255>>,
      <<5, 128>>,
      <<200, 0>>,
      <<200, 7>>,
      <<18, 52, 0, 7>> }

OtherImage == <<119, 136, 153>>

Bases == {0, 253}

Operands == { <<0, 5>>, <<152, 23>> }

DevImage ==
    [p \in 0..255 |->
        CASE p = 0   -> 14
          [] p = 102 -> 90
          [] p = 103 -> 165
          [] p = 255 -> 241
          [] OTHER   -> 0]

RamImage == (0 :> 164) @@ (16 :> 161) @@ (17 :> 162) @@ (255 :> 163)
            @@ (21862 :> 193) @@ (21863 :> 194)

Program(ram, pc, i, ops) ==
    RamSet(RamSet(RamSet(ram, pc, i), (pc + 1) % 65536, ops[1]),
           (pc + 2) % 65536, ops[2])

Drawn(img, base, swap, pc, i, ops) ==
    [NewUxn EXCEPT
        !.wst = IF swap THEN StackAt(0, OtherImage) ELSE StackAt(base, img),
        !.rst = IF swap THEN StackAt(base, img) ELSE StackAt(0, OtherImage),
        !.dev = DevImage,
        !.ram = Program(RamImage, pc, i, ops),
        !.pc  = pc]

Scenarios ==
    (Images \X Bases \X BOOLEAN \X {256} \X Operands)
    \cup ({<<3, 4>>, <<17, 34, 51, 68, 85, 102>>} \X {0} \X BOOLEAN
            \X {65534, 65535} \X {<<0, 5>>})

InitStep ==
    \E sc \in Scenarios, i \in 0..255 :
        /\ vm = Drawn(sc[1], sc[2], sc[3], sc[4], i, sc[5])
        /\ prev = vm
        /\ ins = -1
        /\ phase = "eval"
        /\ steps = Budget
        /\ call = [op |-> "eval", arg |-> sc[4], out |-> <<>>, n |-> 1, at |-> vm]
        /\ pending = <<>>
        /\ ret = <<>>

NextStep == EvalStep

SpecStep == InitStep /\ [][NextStep]_vars

(***************************************************************************)
(* Spec: the life of one emulator.  The host constructs it, may install a  *)
(* device in the system slot, and then calls Emu.load, Console.input and   *)
(* Console.on_console, one call at a time (the core is single-threaded:    *)
(* a call is made when the previous one has returned).  MaxCalls caps the  *)
(* number of calls the model follows.                                      *)
(***************************************************************************)
MaxCalls == 3

\* installs the console vector 0x0110 and, there, a handler that echoes
\* port 0x12 to port 0x18:
\*   LIT 01 LIT 10 DEO  LIT 10 LIT 11 DEO  BRK ... |0110 LIT 12 DEI LIT 18 DEO BRK
RomEcho ==
    <<128, 1, 128, 16, 23, 128, 16, 128, 17, 23, 0, 0, 0, 0, 0, 0,
      128, 18, 22, 128, 24, 23, 0>>

\* the smoke test of main.py and of the docstrings: LIT2 v 18 DEO
RomSmoke(v) == <<160, v, 24, 23>>

\* JMI -3: jumps to itself
RomLoop == <<64, 255, 253>>

\* installs the console vector 0x0111, writes the short 0xabcd to the
\* system port 0x0e, and has the echo handler at 0x0111:
\*   LIT 01 LIT 10 DEO  LIT 11 LIT 11 DEO  LIT2 ab cd LIT 0e DEO2  BRK
\*   |0111 LIT 12 DEI LIT 18 DEO BRK
RomReenter ==
    <<128, 1, 128, 16, 23, 128, 17, 128, 17, 23, 160, 171, 205, 128, 14, 55, 0,
      128, 18, 22, 128, 24, 23, 0>>

\* installs the console vector 0x0110 and, there, a handler that leaves the
\* byte of port 0x12 on the working stack:
\*   LIT 01 LIT 10 DEO  LIT 10 LIT 11 DEO  BRK ... |0110 LIT 12 DEI BRK
RomPush ==
    <<128, 1, 128, 16, 23, 128, 16, 128, 17, 23, 0, 0, 0, 0, 0, 0,
      128, 18, 22, 0>>

Roms == {RomEcho, RomSmoke(42), RomLoop, RomReenter, RomPush}

\* arguments of Console.input: ord(char) of a str exceeds a byte for 'Ł'
InputArgs == {<<65, 1>>, <<321, 260>>}

\* arguments of on_console, as the ord() of their characters
Queries == {<<>>, <<72, 105>>}

\* Uxn.load: ram[0x100 + i] = b for every byte of the program (the
\* programs of the model end below 0x10000)
\* load into a cleared memory
load_Clears(u, program) ==
    [u EXCEPT !.ram = [a \in 256 .. 255 + Len(program) |-> program[a - 255]]]

\* load at address 0 instead of 0x100
load_AtZero(u, program) ==
    [u EXCEPT !.ram =
        [a \in (DOMAIN u.ram) \cup (0 .. Len(program) - 1) |->
            IF a \in 0 .. Len(program) - 1
            THEN program[a + 1] ELSE u.ram[a]]]

load(u, program) ==
    [u EXCEPT !.ram =
        [a \in (DOMAIN u.ram) \cup (256 .. 255 + Len(program)) |->
            IF a \in 256 .. 255 + Len(program)
            THEN program[a - 255] ELSE u.ram[a]]]

Init ==
    /\ vm = NewUxn
    /\ prev = NewUxn
    /\ ins = -1
    /\ phase = "idle"
    /\ steps = 0
    /\ call = [op |-> "new", arg |-> <<>>, out |-> <<>>, n |-> 0, at |-> vm]
    /\ pending = <<>>
    /\ ret = <<>>

\* the host fills the system slot of a new emulator
InstallSystem ==
    /\ phase = "idle"
    /\ call.op = "new"
    /\ ~vm.system
    /\ vm' = [vm EXCEPT !.system = TRUE]
    /\ UNCHANGED <<prev, ins, phase, steps, call, pending, ret>>

HostMayCall ==
    /\ phase = "idle"
    /\ pending = <<>>
    /\ call.n < MaxCalls

\* Emu.load: self.uxn.load(rom).eval(0x0100), up to the first test of the
\* loop of eval
Load(rom) ==
    /\ HostMayCall
    /\ vm' = evalAt(load(vm, rom), 256)
    /\ prev' = vm
    /\ ins' = -1
    /\ phase' = "eval"
    /\ steps' = Budget
    /\ call' = [op |-> "load", arg |-> rom, out |-> vm.out, n |-> call.n + 1,
                at |-> vm]
    /\ UNCHANGED <<pending, ret>>

\* Console.input called by the host or by on_console, up to the first test
\* of the loop of eval when there is a vector
InputCall(char, type_) ==
    LET u1 == inputWrite(vm, char, type_)
    IN  /\ prev' = vm
        /\ ins' = -1
        /\ IF inputEvals(vm)
           THEN /\ vm' = evalAt(u1, ConsoleVector(vm))
                /\ phase' = "eval"
                /\ steps' = Budget
           ELSE /\ vm' = u1
                /\ phase' = "idle"
                /\ steps' = steps

Input(char, type_) ==
    /\ HostMayCall
    /\ InputCall(char, type_)
    /\ call' = [op |-> "input", arg |-> <<char, type_>>, out |-> vm.out,
                n |-> call.n + 1, at |-> vm]
    /\ UNCHANGED <<pending, ret>>

\* the calls of input that on_console(query) makes, in order
on_console_NoNewline(query) == [j \in 1 .. Len(query) |-> <<query[j], 1>>]

on_console(query) ==
    [j \in 1 .. Len(query) + 1 |->
        IF j <= Len(query) THEN <<query[j], 1>> ELSE <<10, 1>>]

\* Console.on_console is entered
OnConsole(query) ==
    /\ HostMayCall
    /\ pending' = on_console(query)
    /\ call' = [op |-> "on_console", arg |-> query, out |-> vm.out,
                n |-> call.n + 1, at |-> vm]
    /\ UNCHANGED <<vm, prev, ins, phase, steps, ret>>

\* on_console makes its next call of input, the previous one having returned
ConsoleNext ==
    /\ phase = "idle"
    /\ pending # <<>>
    /\ InputCall(Head(pending)[1], Head(pending)[2])
    /\ pending' = Tail(pending)
    /\ UNCHANGED <<call, ret>>

Next ==
    \/ InstallSystem
    \/ \E rom \in Roms : Load(rom)
    \/ \E a \in InputArgs : Input(a[1], a[2])
    \/ \E q \in Queries : OnConsole(q)
    \/ ConsoleNext
    \/ EvalStep

Spec == Init /\ [][Next]_vars

(***************************************************************************)
(* SpecSmoke: a new emulator loads the smoke-test ROM, for every byte v.   *)
(***************************************************************************)
LoadSmoke == \E v \in 0 .. 255 : call.op = "new" /\ Load(RomSmoke(v))

NextSmoke == LoadSmoke \/ EvalStep

SpecSmoke == Init /\ [][NextSmoke]_vars

(***************************************************************************)
(* SpecStack: the methods of Stack called directly on the working stack:   *)
(* one push of a byte or of a short, then pops.  ret collects the pops as  *)
(* <<method, value returned>>.                                            *)
(***************************************************************************)
\* ptr at the call: 254 and 255 make the pushes cross the wrap of the ring,
\* 256 and -1 are pointers the unmasked counter reaches
StackPtrs == {0, 7, 254, 255, 256, -1}

StackImage == <<17, 34, 51>>

PushBytes == 0 .. 255

PushShorts == {h * 256 + l : h, l \in {0, 1, 18, 52, 127, 128, 255}}

InitStack ==
    \E p \in StackPtrs :
        /\ vm = [NewUxn EXCEPT !.wst = StackAt(p - Len(StackImage), StackImage)]
        /\ prev = vm
        /\ ins = -1
        /\ phase = "stack"
        /\ steps = 0
        /\ call = [op |-> "new", arg |-> <<>>, out |-> <<>>, n |-> 0, at |-> vm]
        /\ pending = <<>>
        /\ ret = <<>>

Push8(v) ==
    /\ phase = "stack" /\ call.op = "new"
    /\ vm' = [vm EXCEPT !.wst = PU1(vm.wst, v)]
    /\ call' = [op |-> "PU1", arg |-> v, out |-> <<>>, n |-> 1, at |-> vm]
    /\ UNCHANGED <<prev, ins, phase, steps, pending, ret>>

Push16(s) ==
    /\ phase = "stack" /\ call.op = "new"
    /\ vm' = [vm EXCEPT !.wst = PU2(vm.wst, s)]
    /\ call' = [op |-> "PU2", arg |-> s, out |-> <<>>, n |-> 1, at |-> vm]
    /\ UNCHANGED <<prev, ins, phase, steps, pending, ret>>

\* the bytes pushed and not yet popped
Unpopped ==
    (IF call.op = "PU2" THEN 2 ELSE IF call.op = "PU1" THEN 1 ELSE 0)
    - (IF ret = <<>> THEN 0 ELSE IF ret[1][1] = "PO2" THEN 2 ELSE Len(ret))

Pop8 ==
    /\ phase = "stack" /\ Unpopped >= 1
    /\ ret' = Append(ret, <<"PO1", PO1v(vm.wst)>>)
    /\ vm' = [vm EXCEPT !.wst = PO1s(vm.wst)]
    /\ UNCHANGED <<prev, ins, phase, steps, call, pending>>

Pop16 ==
    /\ phase = "stack" /\ Unpopped >= 2
    /\ ret' = Append(ret, <<"PO2", PO2v(vm.wst)>>)
    /\ vm' = [vm EXCEPT !.wst = PO2s(vm.wst)]
    /\ UNCHANGED <<prev, ins, phase, steps, call, pending>>

NextStack ==
    \/ \E v \in PushBytes : Push8(v)
    \/ \E s \in PushShorts : Push16(s)
    \/ Pop8
    \/ Pop16

SpecStack == InitStack /\ [][NextStack]_vars

(***************************************************************************)
(* The ULZ codec of emu.py.  Python indexes from 0, sequences from 1: an   *)
(* index k of the source is k + 1 here.  decodeUlz returns the bytes it    *)
(* has decoded (val) or raises ValueError (exc).                           *)
(***************************************************************************)
\* while j < slen and src[sp + j] == src[dp + (j % dlen)]: j += 1
RECURSIVE MatchLen(_, _, _, _, _, _)
MatchLen(src, sp, dp, dlen, slen, j) ==
    IF j < slen /\ src[sp + j + 1] = src[dp + (j % dlen) + 1]
    THEN MatchLen(src, sp, dp, dlen, slen, j + 1)
    ELSE j

\* for i in range(dlen): the first longest match <<bmp, bmlen>>; the
\* candidate of round i starts at dp = sp - dlen + i
RECURSIVE BestMatch(_, _, _, _, _, _, _)
BestMatch(src, sp, dlen, slen, i, bmp, bmlen) ==
    IF i >= dlen THEN <<bmp, bmlen>>
    ELSE LET dp == sp - dlen + i
             j  == MatchLen(src, sp, dp, dlen, slen, 0)
         IN  IF j > bmlen
             THEN BestMatch(src, sp, dlen, slen, i + 1, dp, j)
             ELSE BestMatch(src, sp, dlen, slen, i + 1, bmp, bmlen)

Min(a, b) == IF a < b THEN a ELSE b

\* the outer loop of encodeUlz
RECURSIVE encodeLoop(_, _, _, _)
encodeLoop(src, sp, dst, litp) ==
    IF sp >= Len(src) THEN dst
    ELSE LET dlen  == Min(sp, 256)
             slen  == Min(Len(src) - sp, 16383 + 4)
             bm    == BestMatch(src, sp, dlen, slen, 0, 0, 0)
             bmp   == bm[1]
             bmlen == bm[2]
             bmctl == bmlen - 4
         IN  IF bmlen >= 4
             THEN LET ctl == IF bmctl > 63
                             THEN <<BitOr(bmctl \div 256, 192), bmctl % 256>>
                             ELSE <<BitOr(bmctl, 128)>>
                  IN  encodeLoop(src, sp + bmlen,
                                 Append(dst \o ctl, sp - bmp - 1), -1)
             ELSE IF litp >= 0
                  THEN LET n == (dst[litp + 1] + 1) % 256
                       IN  encodeLoop(src, sp + 1,
                                      Append([dst EXCEPT ![litp + 1] = n], src[sp + 1]),
                                      IF n = 127 THEN -1 ELSE litp)
                  ELSE encodeLoop(src, sp + 1,
                                  Append(Append(dst, 0), src[sp + 1]), Len(dst))

encodeUlz(src) == encodeLoop(src, 0, <<>>, -1)

\* for _ in range(n): dst.append(dst[cp]); cp += 1
RECURSIVE CopyBack(_, _, _)
CopyBack(dst, cp, n) ==
    IF n = 0 THEN dst ELSE CopyBack(Append(dst, dst[cp + 1]), cp + 1, n - 1)

\* the loop of decodeUlz
RECURSIVE decodeLoop(_, _, _)
decodeLoop(src, sp, dst) ==
    IF sp >= Len(src) THEN [exc |-> "none", val |-> dst]
    ELSE LET c      == src[sp + 1]
             sp1    == sp + 1
             raised == [exc |-> "ValueError", val |-> dst]
         IN  IF BitAnd(c, 128) # 0
             THEN IF BitAnd(c, 64) # 0 /\ sp1 >= Len(src) THEN raised
                  ELSE LET long   == BitAnd(c, 64) # 0
                           length == IF long
                                     THEN BitOr(BitAnd(c, 63) * 256, src[sp1 + 1])
                                     ELSE BitAnd(c, 63)
                           sp2    == IF long THEN sp1 + 1 ELSE sp1
                       IN  IF sp2 >= Len(src) THEN raised
                           ELSE LET cp == Len(dst) - (src[sp2 + 1] + 1)
                                IN  IF cp < 0 THEN raised
                                    ELSE decodeLoop(src, sp2 + 1,
                                                    CopyBack(dst, cp, length + 4))
             ELSE IF sp1 + c >= Len(src) THEN raised
                  ELSE decodeLoop(src, sp1 + c + 1,
                                  dst \o SubSeq(src, sp1 + 1, sp1 + c + 1))

decodeUlz(src) == decodeLoop(src, 0, <<>>)

(***************************************************************************)
(* SpecUlz: encodeUlz applied to a byte sequence, then decodeUlz to its    *)
(* result.  ret collects the two results.                                  *)
(***************************************************************************)
MaxLen == 7

UlzBytes == {65, 66}

UlzInputs == UNION {[1 .. n -> UlzBytes] : n \in 0 .. MaxLen}

InitUlz ==
    \E src \in UlzInputs :
        /\ vm = NewUxn
        /\ prev = NewUxn
        /\ ins = -1
        /\ phase = "ulz"
        /\ steps = 0
        /\ call = [op |-> "encodeUlz", arg |-> src, out |-> <<>>, n |-> 1, at |-> vm]
        /\ pending = <<>>
        /\ ret = <<>>

UlzEncode ==
    /\ phase = "ulz" /\ ret = <<>>
    /\ ret' = <<encodeUlz(call.arg)>>
    /\ UNCHANGED <<vm, prev, ins, phase, steps, call, pending>>

UlzDecode ==
    /\ phase = "ulz" /\ Len(ret) = 1
    /\ ret' = Append(ret, decodeUlz(ret[1]))
    /\ UNCHANGED <<vm, prev, ins, phase, steps, call, pending>>

NextUlz == UlzEncode \/ UlzDecode

SpecUlz == InitUlz /\ [][NextUlz]_vars

(***************************************************************************)
(* Properties.  After an EvalStep, ins is the instruction byte that was    *)
(* executed, prev the machine before it and vm the machine after it.       *)
(***************************************************************************)
Stepped == ins \in 0..255

Op == ins % 32

Short == Bit(ins, 32)

Keep == Bit(ins, 128)

PrevSrc == prev[SrcOf(ins)]

PrevDst == prev[DstOf(ins)]

CurSrc == vm[SrcOf(ins)]

CurDst == vm[DstOf(ins)]

\* the n-th short from the top of stack s (0 is the top), as pop16 returns it
Nth16(s, n) == PO2v([s EXCEPT !.ptr = s.ptr - 2 * n])

\* the n-th byte from the top of stack s
Nth8(s, n) == PO1v([s EXCEPT !.ptr = s.ptr - n])

SameCells(s, t) == s.ram = t.ram /\ s.ptr = t.ptr

\* C1: executing an instruction never raises, the immediate jumps JCI, JMI
\* and JSI at 0xfffe and 0xffff included.
C1_StepNeverRaises == vm.exc = "none"

\* C2: in short mode NIP, SWP, ROT, DUP, OVR and STH push each short as it
\* was popped: with a, b, c the shorts popped (a first), pop16 afterwards
\* returns a for NIP; b then a for SWP; c, a, b for ROT; a, a for DUP;
\* b, a, b for OVR; and a from dst for STH.
C2_ShufflesKeepShorts ==
    (Stepped /\ Short /\ Op \in {3, 4, 5, 6, 7, 15}) =>
        LET a == Nth16(PrevSrc, 0)
            b == Nth16(PrevSrc, 1)
            c == Nth16(PrevSrc, 2)
        IN  CASE Op = 3  -> Nth16(CurSrc, 0) = a
              [] Op = 4  -> Nth16(CurSrc, 0) = b /\ Nth16(CurSrc, 1) = a
              [] Op = 5  -> Nth16(CurSrc, 0) = c /\ Nth16(CurSrc, 1) = a
                            /\ Nth16(CurSrc, 2) = b
              [] Op = 6  -> Nth16(CurSrc, 0) = a /\ Nth16(CurSrc, 1) = a
              [] Op = 7  -> Nth16(CurSrc, 0) = b /\ Nth16(CurSrc, 1) = a
                            /\ Nth16(CurSrc, 2) = b
              [] Op = 15 -> Nth16(CurDst, 0) = a

\* The address operand of a store (STZ, STR, STA) as the source pops it, the
\* effective address, and the value stored (mode wide, read as pop would).
StoreAddrBytes == IF Op = 21 THEN 2 ELSE 1

StoreAddr ==
    CASE Op = 17 -> PO1v(PrevSrc)
      [] Op = 19 -> (((prev.pc + 1) % 65536) + sig(PO1v(PrevSrc))) % 65536
      [] Op = 21 -> PO2v(PrevSrc)

StoreNext == IF Op = 17 THEN (StoreAddr + 1) % 256 ELSE (StoreAddr + 1) % 65536

StoreValue ==
    LET s == [PrevSrc EXCEPT !.ptr = PrevSrc.ptr - StoreAddrBytes]
    IN  IF Short THEN PO2v(s) ELSE PO1v(s)

\* the machine after the matching load (LDZ, LDR, LDA: the opcode below the
\* store's, same mode bits) of the same address: the address operand is
\* pushed again and the load runs at the pc the store ran at
AfterLoad ==
    LET s  == vm[SrcOf(ins)]
        s1 == IF Op = 21 THEN PU2(s, PO2v(PrevSrc)) ELSE PU1(s, PO1v(PrevSrc))
    IN  stepIns([vm EXCEPT ![SrcOf(ins)] = s1, !.pc = prev.pc], ins - 1)

\* C3: a store followed by the load of the same address in the same mode
\* pushes the stored value again, and a short is stored high byte first.
C3_StoreLoadRoundTrip ==
    (Stepped /\ Op \in {17, 19, 21}) =>
        /\ LET t == AfterLoad[SrcOf(ins)]
           IN  (IF Short THEN PO2v(t) ELSE PO1v(t)) = StoreValue
        /\ Short => /\ RamGet(vm.ram, StoreAddr) = StoreValue \div 256
                    /\ RamGet(vm.ram, StoreNext) = StoreValue % 256

\* C4: a short-mode DEO of v to port p is the bus write of the high byte of
\* v to p followed by that of the low byte to (p+1) mod 256; to port 0x10 it
\* leaves v as the console vector.
C4_ShortDeoHighByteFirst ==
    (Stepped /\ Short /\ Op = 23) =>
        LET p == PO1v(PrevSrc)
            v == Nth16(PO1s(PrevSrc), 0)
        IN  /\ vm.bus = << <<p, v \div 256>>, <<(p + 1) % 256, v % 256>> >>
            /\ p = 16 => ConsoleVector(vm) = v

\* C5: LIT and LI2 push their 1 resp. 2 immediate bytes on WST and leave RST
\* alone, LITr and LI2r push them on RST and leave WST alone, and pc moves
\* past the bytes.
C5_LiteralsSelectStack ==
    (Stepped /\ ins \in {128, 160, 192, 224}) =>
        LET n     == IF Short THEN 2 ELSE 1
            to    == IF ins \in {192, 224} THEN "rst" ELSE "wst"
            other == IF ins \in {192, 224} THEN "wst" ELSE "rst"
        IN  /\ vm[to].ptr % 256 = (prev[to].ptr + n) % 256
            /\ \A j \in 0..(n - 1) :
                   vm[to].ram[(prev[to].ptr + j) % 256]
                       = RamGet(prev.ram, (prev.pc + 1 + j) % 65536)
            /\ SameCells(vm[other], prev[other])
            /\ vm.pc = (prev.pc + 1 + n) % 65536

\* C6: each stack's ptr is a byte after any instruction (stated as the step:
\* byte pointers before the instruction are byte pointers after it).
C6_PtrIsByte ==
    (Stepped /\ prev.wst.ptr \in 0..255 /\ prev.rst.ptr \in 0..255) =>
        (vm.wst.ptr \in 0..255 /\ vm.rst.ptr \in 0..255)

\* C7: pc is in 0..65535 and every ram, dev and stack cell is in 0..255.
C7_WidthInvariant ==
    /\ vm.pc \in 0..65535
    /\ \A a \in DOMAIN vm.ram : a \in 0..65535 /\ vm.ram[a] \in 0..255
    /\ \A c \in 0..255 :
           /\ vm.dev[c] \in 0..255
           /\ vm.wst.ram[c] \in 0..255
           /\ vm.rst.ram[c] \in 0..255

\* ADD of 0xff and 0xff has pushed the sum reduced to a byte
C7_Witness ==
    /\ ins = 24
    /\ Nth8(prev.wst, 0) = 255
    /\ Nth8(prev.wst, 1) = 255
    /\ Nth8(vm.wst, 0) = 254

\* C8: after a byte-mode DEO of v to port p, dev[p] = v for every port; the
\* write precedes the handler, so that the console emits v for 0x18 and 0x19.
C8_DeoMirrorsDev ==
    (Stepped /\ ~Short /\ Op = 23) =>
        LET p == Nth8(PrevSrc, 0)
            v == Nth8(PrevSrc, 1)
        IN  /\ vm.dev[p] = v
            /\ p = 24 => vm.out = Append(prev.out, v)
            /\ p = 25 => vm.err = Append(prev.err, v)

\* DEO of 0x42 to the stdout port 0x18
C8_Witness ==
    /\ ins = 23
    /\ Nth8(prev.wst, 0) = 24
    /\ Nth8(prev.wst, 1) = 66
    /\ vm.dev[24] = 66
    /\ vm.out = <<66>>

\* The base opcodes 0x01..0x1f other than the branches JMP, JCN and JSR.
NonBranching == Op \in (1..31) \ {12, 13, 14}

\* the machine the same instruction without the keep bit leaves
NoKeep == stepIns(prev, ins - 128)

\* the number of bytes the keep form has pushed on src
KeptPushes == CurSrc.ptr - PrevSrc.ptr

\* the keep form pushes on src the bytes the plain form pushes, above the
\* operands it keeps, and leaves dst as the plain form leaves it
SamePushes ==
    LET t == NoKeep[SrcOf(ins)]
    IN  /\ KeptPushes >= 0
        /\ \A j \in 0..(KeptPushes - 1) :
               CurSrc.ram[(PrevSrc.ptr + j) % 256]
                   = t.ram[(t.ptr - KeptPushes + j) % 256]
        /\ SameCells(CurDst, NoKeep[DstOf(ins)])

BelowUnchanged ==
    \A c \in 0..255 : c < PrevSrc.ptr => CurSrc.ram[c] = PrevSrc.ram[c]

\* C9 as claimed: with the keep bit a non-branching instruction pushes the
\* bytes of its plain form and changes no cell of src below the pointer it
\* started from (taken for starting pointers that are bytes).
C9_KeepFrameAnyPtr ==
    (Stepped /\ Keep /\ NonBranching /\ PrevSrc.ptr \in 0..255) =>
        (SamePushes /\ BelowUnchanged)

\* C9, amended: the same, the cells below the starting pointer being
\* unchanged when the pushes stay within the 256 cells of the ring
\* (starting ptr + pushed bytes <= 256); past the end they wrap to cell 0.
C9_KeepFrame ==
    (Stepped /\ Keep /\ NonBranching) =>
        /\ SamePushes
        /\ (PrevSrc.ptr + KeptPushes <= 256) => BelowUnchanged

\* ADDk on WST [0x03, 0x04] has left [0x03, 0x04, 0x07]
C9_Witness ==
    /\ ins = 152
    /\ prev.wst.ptr = 2
    /\ vm.wst.ptr = 3
    /\ vm.wst.ram[0] = 3 /\ vm.wst.ram[1] = 4 /\ vm.wst.ram[2] = 7

Swap(u) == [u EXCEPT !.wst = u.rst, !.rst = u.wst]

\* C10: an instruction of base opcode 0x01..0x1f with the return bit leaves
\* what the same instruction without it leaves when the two stacks are
\* swapped before and swapped back after: both stacks, pc, ram and dev.
C10_ReturnModeSymmetry ==
    (Stepped /\ Bit(ins, 64) /\ Op # 0) =>
        LET n == stepIns(Swap(prev), ins - 64)
        IN  /\ SameCells(vm.wst, n.rst)
            /\ SameCells(vm.rst, n.wst)
            /\ vm.pc = n.pc
            /\ vm.ram = n.ram
            /\ vm.dev = n.dev

\* STHr has moved the top byte of RST to WST
C10_Witness ==
    /\ ins = 79
    /\ Nth8(prev.rst, 0) = 4
    /\ vm.rst.ptr = prev.rst.ptr - 1
    /\ vm.wst.ptr = prev.wst.ptr + 1
    /\ Nth8(vm.wst, 0) = 4

\* C11: every call of eval returns normally: no exception propagates out of
\* it, it starts with the full budget of 0x80000 steps whatever earlier or
\* enclosing evaluations have used, and it never executes more instructions
\* than that budget.
C11_EvalReturns ==
    /\ phase # "raised"
    /\ (phase = "eval" /\ ins = -1) => steps = Budget
    /\ phase \in {"eval", "idle"} /\ call.op # "new" => steps \in 0 .. Budget

\* the port operand of the DEI or DEO that was executed
PortOperand == PO1v(PrevSrc)

\* a DEO to a port of the system device, with the device installed and a
\* console vector set: the device's handler ran an evaluation inside the
\* instruction
Reentered ==
    /\ Stepped /\ Op = 23
    /\ prev.system /\ PortOperand \in 0 .. 15
    /\ ConsoleVector(prev) # 0

\* the same instruction on the same machine with no device in the system
\* slot, so that nothing re-enters
NoReentry == stepIns([prev EXCEPT !.system = FALSE], ins)

\* C12: when the handler of a short-mode DEO re-enters the machine with
\* eval, the instruction still completes as decoded: the port after the
\* operand port receives the byte it receives without the re-entry.
C12_ReentryKeepsDecode ==
    (Reentered /\ Short /\ PortOperand < 15 /\ vm.exc = "none") =>
        vm.dev[PortOperand + 1] = NoReentry.dev[PortOperand + 1]

\* the host's last call is input, or on_console that has made at least one
\* of its calls of input
InputMade ==
    \/ call.op = "input"
    \/ call.op = "on_console" /\ Len(pending) <= Len(call.arg)

\* the arguments <<char, type>> of the last call of input
LastInput ==
    IF call.op = "input" THEN call.arg
    ELSE LET done == Len(call.arg) + 1 - Len(pending)
         IN  IF done <= Len(call.arg) THEN <<call.arg[done], 1>> ELSE <<10, 1>>

\* input has been entered and no instruction has been executed since
InputEntered == InputMade /\ ins = -1

\* C13: with a console vector v installed, input(char, kind) has written
\* char & 0xff to dev[0x12] and kind & 0xff to dev[0x17] before the first
\* instruction of the handler, evaluates from v, and has returned only when
\* that evaluation has ended with BRK or with the budget used up; a byte
\* DEI of port 0x12 in the handler pushes the injected char.
C13_InputRunsHandler ==
    /\ (InputEntered /\ ConsoleVector(prev) # 0) =>
            /\ phase = "eval"
            /\ steps = Budget
            /\ vm.pc = ConsoleVector(prev)
            /\ vm.dev[18] = LastInput[1] % 256
            /\ vm.dev[23] = LastInput[2] % 256
    /\ (InputMade /\ phase = "idle") =>
            IF ins = -1 THEN ConsoleVector(prev) = 0 ELSE (ins = 0 \/ steps = 0)
    /\ (InputMade /\ Stepped /\ Op = 22 /\ ~Short /\ PortOperand = 18) =>
            PO1v(CurSrc) = LastInput[1] % 256

C13_Witness ==
    /\ InputMade /\ Stepped /\ Op = 22 /\ ~Short /\ PortOperand = 18
    /\ LastInput = <<321, 260>>
    /\ PO1v(CurSrc) = 65
    /\ vm.dev[23] = 4

\* C14: with no console vector installed, input(char, kind) changes
\* dev[0x12] and dev[0x17] and nothing else, and runs no instruction.
C14_InputWithoutHandler ==
    (InputEntered /\ ConsoleVector(prev) = 0) =>
        /\ phase = "idle"
        /\ vm = [prev EXCEPT !.dev[18] = LastInput[1] % 256,
                              !.dev[23] = LastInput[2] % 256]

C14_Witness ==
    /\ InputEntered /\ ConsoleVector(prev) = 0
    /\ LastInput = <<321, 260>>
    /\ prev.pc = 261 /\ prev.out = <<42>>
    /\ vm.dev[18] = 65 /\ vm.dev[23] = 4

\* the console vector of u points at a routine that echoes port 0x12 to
\* port 0x18: LIT 12 DEI LIT 18 DEO BRK
EchoInstalled(u) ==
    /\ ConsoleVector(u) # 0
    /\ \A j \in 1 .. 7 :
          RamGet(u.ram, ConsoleVector(u) + j - 1) = <<128, 18, 22, 128, 24, 23, 0>>[j]

\* the bytes that on_console(query) is to deliver
Delivery == Append([j \in 1 .. Len(call.arg) |-> call.arg[j] % 256], 10)

\* the number of calls of input that the running on_console has made
Delivered == Len(call.arg) + 1 - Len(pending)

\* C15: on_console(s) delivers the characters of s in order, then 0x0a,
\* each with kind 1 and each to a handler that has finished before the next
\* is written: with an echo handler installed, whenever on_console is
\* between two deliveries stdout has grown by exactly the bytes delivered
\* so far, and by s followed by 0x0a at the end; a single input of 0x41
\* makes stdout grow by 'A'.
C15_OnConsoleEchoes ==
    /\ (call.op = "on_console" /\ phase = "idle" /\ EchoInstalled(vm)) =>
            /\ Delivered \in 0 .. Len(Delivery)
            /\ vm.out = call.out \o SubSeq(Delivery, 1, Delivered)
            /\ Delivered > 0 =>
                    /\ vm.dev[18] = Delivery[Delivered]
                    /\ vm.dev[23] = 1
    /\ (call.op = "input" /\ phase = "idle" /\ EchoInstalled(vm)) =>
            vm.out = Append(call.out, call.arg[1] % 256)

C15_Witness ==
    /\ call.op = "on_console" /\ call.arg = <<72, 105>>
    /\ phase = "idle" /\ pending = <<>> /\ EchoInstalled(vm)
    /\ call.out = <<>>
    /\ vm.out = <<72, 105, 10>>

\* the values of the bus writes to port p, in the order of the writes
WrittenTo(p) ==
    LET w == SelectSeq(vm.bus, LAMBDA e : e[1] = p)
    IN  [j \in 1 .. Len(w) |-> w[j][2]]

\* C16: an instruction appends to stdout exactly the values of its bus
\* writes to port 0x18 and to stderr exactly those of its writes to port
\* 0x19, in order; writes to other ports and DEI append nothing, and what
\* was output before is kept.
C16_ConsoleRouting ==
    (Stepped /\ vm.exc = "none") =>
        /\ vm.out = prev.out \o WrittenTo(24)
        /\ vm.err = prev.err \o WrittenTo(25)
        /\ Op # 23 => vm.bus = <<>>

C16_Witness ==
    /\ Stepped /\ Op = 23 /\ Short
    /\ vm.bus = <<<<24, 66>>, <<25, 65>>>>
    /\ vm.out = <<66>>
    /\ vm.err = <<65>>

\* the first call on a new emulator was load([0xa0, v, 0x18, 0x17])
SmokeLoaded(v) == call.op = "load" /\ call.n = 1 /\ call.arg = RomSmoke(v)

\* C17: the ROM [0xa0, v, 0x18, 0x17] loaded into a new emulator writes
\* exactly the byte v to stdout and nothing to stderr, leaves the working
\* stack pointer at 0 and the return stack untouched, and halts at the BRK
\* that is the zero byte at 0x0104, after three calls of step.
C17_SmokeTest ==
    \A v \in 0 .. 255 :
        SmokeLoaded(v) =>
            /\ phase # "raised"
            /\ steps >= Budget - 2
            /\ phase = "idle" =>
                    /\ vm.out = <<v>>
                    /\ vm.err = <<>>
                    /\ vm.wst.ptr = 0
                    /\ vm.rst = NewStack
                    /\ ins = 0
                    /\ prev.pc = 260
                    /\ RamGet(vm.ram, 260) = 0

C17_Witness ==
    /\ SmokeLoaded(42)
    /\ phase = "idle"
    /\ vm.out = <<42>>
    /\ steps = Budget - 2

\* the operands of a two-operand arithmetic instruction: a is popped first
ArithA == IF Short THEN Nth16(PrevSrc, 0) ELSE Nth8(PrevSrc, 0)

ArithB == IF Short THEN Nth16(PrevSrc, 1) ELSE Nth8(PrevSrc, 1)

Width == IF Short THEN 2 ELSE 1

\* C18: DIV never raises: with divisor a = 0 it pushes 0 in the width of
\* the mode, with a # 0 it pushes floor(b / a) reduced to that width.
C18_DivNeverFaults ==
    (Stepped /\ Op = 27) =>
        /\ vm.exc = "none"
        /\ CurSrc.ptr = PrevSrc.ptr - (IF Keep THEN 0 ELSE 2 * Width) + Width
        /\ (IF Short THEN Nth16(CurSrc, 0) ELSE Nth8(CurSrc, 0))
             = IF ArithA = 0 THEN 0
               ELSE (ArithB \div ArithA) % (IF Short THEN 65536 ELSE 256)

C18_Witness ==
    /\ Stepped /\ Op = 27
    /\ ArithA = 0 /\ ArithB # 0
    /\ Nth8(CurSrc, 0) = 0

\* C19: on the ring, at every pointer position, push8(v) then pop8() returns
\* v; push16(s) then pop16() returns s; push16(s) then pop8(), pop8()
\* returns the low byte of s and then its high byte.
C19_StackRoundTrip ==
    /\ (call.op = "PU1" /\ Len(ret) = 1) => ret[1] = <<"PO1", call.arg>>
    /\ (call.op = "PU2" /\ Len(ret) = 1 /\ ret[1][1] = "PO2") =>
            ret[1][2] = call.arg
    /\ (call.op = "PU2" /\ Len(ret) = 2) =>
            /\ ret[1] = <<"PO1", call.arg % 256>>
            /\ ret[2] = <<"PO1", (call.arg \div 256) % 256>>
    /\ Unpopped = 0 => vm.wst.ptr = prev.wst.ptr

C19_Witness ==
    /\ call.op = "PU2" /\ call.arg = 4660
    /\ prev.wst.ptr = 255
    /\ ret = <<<<"PO1", 52>>, <<"PO1", 18>>>>
    /\ vm.wst.ram[255] = 18 /\ vm.wst.ram[0] = 52

\* C20: decodeUlz(encodeUlz(src)) returns src, without raising, for every
\* byte sequence src.
C20_UlzRoundTrip ==
    (phase = "ulz" /\ Len(ret) = 2) =>
        ret[2] = [exc |-> "none", val |-> call.arg]

\* what a program can observe of a machine: memory, device page, program
\* counter, the cells and pointers of both stacks, and the two outputs
Arch(u) ==
    [ ram |-> u.ram, dev |-> u.dev, pc |-> u.pc,
      wst |-> [ram |-> u.wst.ram, ptr |-> u.wst.ptr],
      rst |-> [ram |-> u.rst.ram, ptr |-> u.rst.ptr],
      out |-> u.out, err |-> u.err ]

\* C21: eval stops exactly at the first BRK: the evaluation has returned
\* after a step if and only if the byte fetched was 0x00 (or the budget is
\* used up), so no instruction follows a BRK within one eval; and BRK
\* changes nothing but pc, which advances by one.
C21_BrkHalts ==
    (Stepped /\ vm.exc = "none") =>
        /\ ins = 0 => phase = "idle"
        /\ (ins # 0 /\ steps > 0) => phase = "eval"
        /\ ins = 0 => Arch(vm) = [Arch(prev) EXCEPT !.pc = (prev.pc + 1) % 65536]

C21_Witness ==
    /\ Stepped /\ ins = 0 /\ phase = "idle"
    /\ steps = Budget - 1
    /\ vm.pc = 258
    /\ vm.wst.ptr = 258
    /\ prev.m2 /\ ~vm.m2

\* the instruction executed is a call: JSR in any mode, or JSI
IsCall == Stepped /\ (Op = 14 \/ ins = 96)

\* the address a call has to save: that of the instruction after the JSR,
\* or of the byte after the two operand bytes of the JSI
ReturnAddress == (prev.pc + (IF ins = 96 THEN 3 ELSE 1)) % 65536

\* the address a call has to jump to
CallTarget ==
    IF ins = 96
    THEN (ReturnAddress
            + RamGet(prev.ram, (prev.pc + 1) % 65536) * 256
            + RamGet(prev.ram, (prev.pc + 2) % 65536)) % 65536
    ELSE IF Short THEN Nth16(PrevSrc, 0)
    ELSE (ReturnAddress + sig(Nth8(PrevSrc, 0))) % 65536

\* C22: a call pushes its return address on dst as a short, high byte
\* first, and then jumps; src is popped (JSR, unless kept) but receives no
\* push.
C22_CallsSaveReturn ==
    IsCall =>
        /\ vm.exc = "none"
        /\ CurDst.ptr % 256 = (PrevDst.ptr + 2) % 256
        /\ Nth8(CurDst, 1) = ReturnAddress \div 256
        /\ Nth8(CurDst, 0) = ReturnAddress % 256
        /\ CurSrc.ram = PrevSrc.ram
        /\ CurSrc.ptr = PrevSrc.ptr - (IF Keep \/ ins = 96 THEN 0 ELSE Width)
        /\ vm.pc = CallTarget

\* the console vector of u points at a routine that leaves the byte of port
\* 0x12 on the working stack: LIT 12 DEI BRK
PushInstalled(u) ==
    /\ ConsoleVector(u) # 0
    /\ \A j \in 1 .. 4 :
          RamGet(u.ram, ConsoleVector(u) + j - 1) = <<128, 18, 22, 0>>[j]

\* C23: eval neither saves nor restores pc or the stacks.  When input
\* returns after running a handler, pc is one past the handler's BRK and
\* the stacks are as the handler left them; when an eval nested in a DEO
\* returns, pc is one past the nested handler's BRK and the enclosing eval
\* goes on from there.
C23_EvalRestoresNothing ==
    /\ (InputMade /\ phase = "idle" /\ Stepped) =>
            /\ ins = 0
            /\ vm.pc = (prev.pc + 1) % 65536
            /\ EchoInstalled(vm) => vm.pc = ConsoleVector(vm) + 7
            /\ PushInstalled(vm) => vm.pc = ConsoleVector(vm) + 4
    /\ (call.op = "input" /\ phase = "idle" /\ PushInstalled(vm)) =>
            /\ Arch(vm).wst = PU1(Arch(call.at).wst, call.arg[1] % 256)
            /\ Arch(vm).rst = Arch(call.at).rst
    /\ (call.op = "on_console" /\ phase = "idle" /\ PushInstalled(vm)) =>
            vm.wst.ptr = call.at.wst.ptr + Delivered
    /\ (Reentered /\ EchoInstalled(prev) /\ vm.exc = "none") =>
            /\ vm.pc = ConsoleVector(prev) + 7
            /\ phase = "eval"

C23_Witness ==
    /\ call.op = "input" /\ phase = "idle" /\ PushInstalled(vm)
    /\ call.arg = <<321, 260>>
    /\ call.at.pc = 267 /\ call.at.wst.ptr = 0
    /\ vm.pc = 276
    /\ vm.wst.ptr = 1 /\ vm.wst.ram[0] = 65

\* Emu.load has loaded and eval has not yet executed an instruction; prev
\* is the machine before the call
LoadEntered == call.op = "load" /\ ins = -1 /\ phase = "eval"

\* the cells load(rom) is to write
RomCells == 256 .. 255 + Len(call.arg)

\* C24: load(rom) writes rom[i] to ram[0x0100 + i] and nothing else: when
\* evaluation starts, the other ram cells, both stacks, the device page and
\* the outputs are as earlier execution left them.
C24_LoadResetsNothing ==
    LoadEntered =>
        /\ \A a \in RomCells \cup DOMAIN vm.ram \cup DOMAIN prev.ram :
              RamGet(vm.ram, a) = IF a \in RomCells THEN call.arg[a - 255]
                                  ELSE RamGet(prev.ram, a)
        /\ Arch(vm) = [Arch(prev) EXCEPT !.ram = vm.ram, !.pc = 256]

C24_Witness ==
    /\ LoadEntered
    /\ call.arg = RomSmoke(42)
    /\ RamGet(vm.ram, 259) = 23 /\ RamGet(vm.ram, 260) = 23
    /\ RamGet(vm.ram, 272) = 128
    /\ ConsoleVector(vm) = 272
    /\ vm.wst.ptr = 1 /\ vm.wst.ram[0] = 65
    /\ prev.pc = 276

\* decode state that an earlier instruction may have left behind
Leftovers ==
    { [ m2 |-> TRUE, mk |-> TRUE, src |-> "rst", dst |-> "wst",
        x |-> <<170, 187>>, y |-> <<204, 221>>, z |-> <<238, 255>>,
        wk |-> 77, rk |-> 200 ],
      [ m2 |-> FALSE, mk |-> TRUE, src |-> "rst", dst |-> "rst",
        x |-> <<1, 2>>, y |-> <<3, 4>>, z |-> <<5, 6>>,
        wk |-> -3, rk |-> 300 ] }

\* the machine u with the decode state l in place of its own
WithLeftover(u, l) ==
    [u EXCEPT !.m2 = l.m2, !.mk = l.mk, !.src = l.src, !.dst = l.dst,
              !.x = l.x, !.y = l.y, !.z = l.z,
              !.wst.ptrk = l.wk, !.rst.ptrk = l.rk]

\* C25: the outcome of a step depends on ram, dev, pc and the two stacks
\* only: the same instruction on a machine that differs in the leftover
\* decode state (m2, mk, src, dst, x, y, z, the ptrk of both stacks) gives
\* the same ram, dev, pc, stacks and outputs, and raises in the same cases.
C25_StepIgnoresLeftovers ==
    Stepped =>
        \A l \in Leftovers :
            LET t == stepIns(WithLeftover(prev, l), ins)
            IN  Arch(t) = Arch(vm) /\ t.exc = vm.exc

C25_Witness ==
    /\ Stepped /\ Op = 5 /\ Short /\ ~Keep
    /\ ~prev.m2 /\ prev.x = <<0, 0>>
    /\ vm.x # <<0, 0>>
    /\ \A l \in Leftovers :
          Arch(stepIns(WithLeftover(prev, l), ins)) = Arch(vm)
====
